---- MODULE Spec2Model ----
(***************************************************************************)
(* Recent-resume context cache of chatgpt-on-wechat:                       *)
(*   context/recent_resume/resume_store.py            (ResumeStore)        *)
(*   context/recent_resume/resume_context_service.py  (facade)             *)
(*   context/context_manager.py                       (prompt assembly)    *)
(* The Redis backend is modelled as one keyspace; every key holds a value  *)
(* and a remaining time-to-live.                                           *)
(***************************************************************************)
EXTENDS Integers, Sequences, FiniteSets, TLC

VARIABLES
    max_size,       \* ResumeStore.max_size
    ttl_seconds,    \* ResumeStore.ttl_seconds, 0 stands for None / 0 (no expiry)
    db,             \* the backend keyspace: key -> [kind, items, hash, ttl]
    call,           \* per caller: the add_with_summary call in flight, if any
    log,            \* per session: ids passed to add since the list was last reset
    backend_up,     \* FALSE while the backend refuses connections
    prompt,         \* outcome of the last build_system_prompt call
    tool            \* the last ResumeSearch.execute call: arguments, request, outcome

vars == <<max_size, ttl_seconds, db, call, log, backend_up, prompt, tool>>

-----------------------------------------------------------------------------
(* Bounds of the model *)

MaxSizeBound == 2       \* max_size is drawn from 1..MaxSizeBound
MaxTtl == 2             \* ttl_seconds is 0 (none) or MaxTtl clock ticks
MaxLog == 4             \* longest recorded run of add calls per session
MaxPromptCalls == 2     \* update_latest_view calls made before a prompt is built
MaxViewed == 11         \* resumes viewed in the session of a default-configured agent

Sessions == {"s1", "s2"}
Cands == {"c1", "c2", "c3"}
Callers == {"p1", "p2"}

\* the candidates the concurrent callers view, the session of the add history
ConcCands == {"c1", "c2"}
SeqSessions == {"s1"}

-----------------------------------------------------------------------------
(* Python strings.  A string is its content tag and the lengths of its     *)
(* leading whitespace, its body (first to last non-blank character) and    *)
(* its trailing whitespace.                                                *)

Text(tag, lead, core, trail) ==
    [tag |-> tag, lead |-> lead, core |-> core, trail |-> trail]

Str(tag, n) == Text(tag, 0, n, 0)

EmptyStr == Str("", 0)

None == Text("None", 0, 0, 0)

StrLen(t) == t.lead + t.core + t.trail

\* Python truthiness of an Optional[str]
Truthy(t) == t # None /\ StrLen(t) > 0

\* `x or ""`
OrEmpty(t) == IF Truthy(t) THEN t ELSE EmptyStr

Min(a, b) == IF a < b THEN a ELSE b
Max(a, b) == IF a > b THEN a ELSE b

-----------------------------------------------------------------------------
(* Key naming *)

key_prefix == "session"
list_name == "recent_resumes"

\* a key that leaves the session id out
_recent_key_shared(session_id) == key_prefix \o ":" \o list_name

_recent_key(session_id) == key_prefix \o ":" \o session_id \o ":" \o list_name

_summary_key(candidate_id) == "resume:summary:" \o candidate_id

Keys == {_recent_key(s) : s \in Sessions} \cup {_summary_key(c) : c \in Cands}

-----------------------------------------------------------------------------
(* The Redis commands the store issues *)

EmptyHash == [f \in {} |-> EmptyStr]

NoKey == [kind |-> "none", items |-> <<>>, hash |-> EmptyHash, ttl |-> 0]

\* LREM key 0 value: drop every occurrence; an emptied list key disappears
LRemItems(items, value) == SelectSeq(items, LAMBDA x : x # value)

\* an LREM that removes nothing
LREM_keeps_all(d, key, value) == d

LREM(d, key, value) ==
    IF d[key].kind # "list" THEN d
    ELSE IF LRemItems(d[key].items, value) = <<>> THEN [d EXCEPT ![key] = NoKey]
    ELSE [d EXCEPT ![key].items = LRemItems(d[key].items, value)]

LRemCount(d, key, value) ==
    Len(d[key].items) - Len(LRemItems(d[key].items, value))

\* LPUSH key value: insert at the head, creating the key without expiry
LPUSH(d, key, value) ==
    IF d[key].kind = "list"
    THEN [d EXCEPT ![key].items = <<value>> \o d[key].items]
    ELSE [d EXCEPT ![key] = [kind |-> "list", items |-> <<value>>,
                             hash |-> EmptyHash, ttl |-> 0]]

\* Redis index range [start, stop] (0-based, inclusive, negative from the end)
RangeLo(len, start) == IF start < 0 THEN Max(len + start, 0) ELSE start
RangeHi(len, stop) == IF stop < 0 THEN len + stop ELSE Min(stop, len - 1)

RangeOf(items, start, stop) ==
    LET lo == RangeLo(Len(items), start)
        hi == RangeHi(Len(items), stop)
    IN IF lo > hi \/ lo >= Len(items) THEN <<>> ELSE SubSeq(items, lo + 1, hi + 1)

\* LTRIM key start stop: keep the range; an emptied list key disappears
LTRIM(d, key, start, stop) ==
    IF d[key].kind # "list" THEN d
    ELSE IF RangeOf(d[key].items, start, stop) = <<>> THEN [d EXCEPT ![key] = NoKey]
    ELSE [d EXCEPT ![key].items = RangeOf(d[key].items, start, stop)]

\* LRANGE key start stop
LRANGE(d, key, start, stop) == RangeOf(d[key].items, start, stop)

\* EXPIRE key seconds: only an existing key gets an expiry
EXPIRE(d, key, seconds) ==
    IF d[key].kind = "none" THEN d
    ELSE IF seconds <= 0 THEN [d EXCEPT ![key] = NoKey]
    ELSE [d EXCEPT ![key].ttl = seconds]

\* DEL key
DEL(d, key) == [d EXCEPT ![key] = NoKey]

DelCount(d, key) == IF d[key].kind = "none" THEN 0 ELSE 1

\* HSET key mapping: upsert the named fields, creating the key without expiry
HSetFields(old, mapping) ==
    [f \in (DOMAIN old) \cup (DOMAIN mapping) |->
        IF f \in DOMAIN mapping THEN mapping[f] ELSE old[f]]

HSET(d, key, mapping) ==
    IF d[key].kind = "hash"
    THEN [d EXCEPT ![key].hash = HSetFields(d[key].hash, mapping)]
    ELSE [d EXCEPT ![key] = [kind |-> "hash", items |-> <<>>,
                             hash |-> HSetFields(EmptyHash, mapping), ttl |-> 0]]

\* HGETALL key
HGETALL(d, key) == d[key].hash

\* One queued command applied to the keyspace
Apply(d, cmd) ==
    CASE cmd.op = "lrem"   -> LREM(d, cmd.key, cmd.value)
      [] cmd.op = "lpush"  -> LPUSH(d, cmd.key, cmd.value)
      [] cmd.op = "ltrim"  -> LTRIM(d, cmd.key, cmd.start, cmd.stop)
      [] cmd.op = "expire" -> EXPIRE(d, cmd.key, cmd.seconds)
      [] cmd.op = "hset"   -> HSET(d, cmd.key, cmd.mapping)

\* pipe.execute() of a transactional pipeline (MULTI/EXEC): the queued
\* commands run in order as one step of the backend
RECURSIVE Execute(_, _)
Execute(d, cmds) ==
    IF cmds = <<>> THEN d ELSE Execute(Apply(d, Head(cmds)), Tail(cmds))

-----------------------------------------------------------------------------
(* ResumeStore *)

\* an Optional[int] limit
NoLimit == [none |-> TRUE, n |-> 0]
Limit(n) == [none |-> FALSE, n |-> n]

\* a store that never queues the expire command
expire_cmds_never(key) == << >>

expire_cmds(key) ==
    IF ttl_seconds # 0
    THEN << [op |-> "expire", key |-> key, seconds |-> ttl_seconds] >>
    ELSE << >>

\* add() that forgets to trim the list
add_pipeline_no_trim(session_id, candidate_id) ==
    LET key == _recent_key(session_id)
    IN << [op |-> "lrem", key |-> key, value |-> candidate_id],
          [op |-> "lpush", key |-> key, value |-> candidate_id] >>
       \o expire_cmds(key)

\* add() that pushes without removing the earlier occurrence
add_pipeline_no_lrem(session_id, candidate_id) ==
    LET key == _recent_key(session_id)
    IN << [op |-> "lpush", key |-> key, value |-> candidate_id],
          [op |-> "ltrim", key |-> key, start |-> 0, stop |-> max_size - 1] >>
       \o expire_cmds(key)

\* add() that trims one entry too late
add_pipeline_trim_late(session_id, candidate_id) ==
    LET key == _recent_key(session_id)
    IN << [op |-> "lrem", key |-> key, value |-> candidate_id],
          [op |-> "lpush", key |-> key, value |-> candidate_id],
          [op |-> "ltrim", key |-> key, start |-> 0, stop |-> max_size] >>
       \o expire_cmds(key)

\* add() that also renews the expiry of the candidate's summary
add_pipeline_renews_summary(session_id, candidate_id) ==
    LET key == _recent_key(session_id)
    IN << [op |-> "lrem", key |-> key, value |-> candidate_id],
          [op |-> "lpush", key |-> key, value |-> candidate_id],
          [op |-> "ltrim", key |-> key, start |-> 0, stop |-> max_size - 1] >>
       \o expire_cmds(key) \o expire_cmds(_summary_key(candidate_id))

\* the commands add() queues on its pipeline
add_pipeline(session_id, candidate_id) ==
    LET key == _recent_key(session_id)
    IN << [op |-> "lrem", key |-> key, value |-> candidate_id],
          [op |-> "lpush", key |-> key, value |-> candidate_id],
          [op |-> "ltrim", key |-> key, start |-> 0, stop |-> max_size - 1] >>
       \o expire_cmds(key)

add(d, session_id, candidate_id) == Execute(d, add_pipeline(session_id, candidate_id))

\* get() that hands a non-positive limit to lrange as it is
get_nonpositive_passthrough(d, session_id, limit) ==
    LET key == _recent_key(session_id)
        lim == IF limit.none THEN max_size ELSE limit.n
    IN LRANGE(d, key, 0, lim - 1)

get(d, session_id, limit) ==
    LET key == _recent_key(session_id)
        lim == IF limit.none \/ limit.n <= 0 THEN max_size ELSE limit.n
    IN LRANGE(d, key, 0, lim - 1)

\* remove() that drops the newest id whatever id it is given
remove_drops_head(d, session_id, candidate_id) == LTRIM(d, _recent_key(session_id), 1, -1)

remove(d, session_id, candidate_id) == LREM(d, _recent_key(session_id), candidate_id)

remove_result(d, session_id, candidate_id) ==
    LRemCount(d, _recent_key(session_id), candidate_id)

clear(d, session_id) == DEL(d, _recent_key(session_id))

clear_result(d, session_id) == DelCount(d, _recent_key(session_id))

\* set_summary() that stores the two values under each other's field
set_summary_pipeline_swapped(candidate_id, name, summary) ==
    LET key == _summary_key(candidate_id)
    IN << [op |-> "hset", key |-> key,
           mapping |-> [name |-> OrEmpty(summary), summary |-> OrEmpty(name)]] >>
       \o expire_cmds(key)

\* set_summary() that writes only the values it was given
set_summary_pipeline_skip_missing(candidate_id, name, summary) ==
    LET key == _summary_key(candidate_id)
        given == [name |-> name, summary |-> summary]
    IN << [op |-> "hset", key |-> key,
           mapping |-> [f \in {g \in {"name", "summary"} : Truthy(given[g])} |-> given[f]]] >>
       \o expire_cmds(key)

\* the commands set_summary() queues on its pipeline
set_summary_pipeline(candidate_id, name, summary) ==
    LET key == _summary_key(candidate_id)
    IN << [op |-> "hset", key |-> key,
           mapping |-> [name |-> OrEmpty(name), summary |-> OrEmpty(summary)]] >>
       \o expire_cmds(key)

set_summary(d, candidate_id, name, summary) ==
    Execute(d, set_summary_pipeline(candidate_id, name, summary))

\* get_summary returns None or a dict with name and summary
NotFound == [found |-> FALSE, name |-> EmptyStr, summary |-> EmptyStr]

DictGet(data, field, default) ==
    IF field \in DOMAIN data THEN data[field] ELSE default

\* get_summary that takes a record of empty values for no record
get_summary_empty_is_absent(d, candidate_id) ==
    LET data == HGETALL(d, _summary_key(candidate_id))
    IN IF \A f \in DOMAIN data : ~Truthy(data[f]) THEN NotFound
       ELSE [found |-> TRUE,
             name |-> DictGet(data, "name", EmptyStr),
             summary |-> DictGet(data, "summary", EmptyStr)]

get_summary(d, candidate_id) ==
    LET data == HGETALL(d, _summary_key(candidate_id))
    IN IF DOMAIN data = {} THEN NotFound
       ELSE [found |-> TRUE,
             name |-> DictGet(data, "name", EmptyStr),
             summary |-> DictGet(data, "summary", EmptyStr)]

delete_summary(d, candidate_id) == DEL(d, _summary_key(candidate_id))

delete_summary_result(d, candidate_id) == DelCount(d, _summary_key(candidate_id))

\* the entry get_recent_summaries appends for one candidate id
summary_entry(d, cid) ==
    LET summary == get_summary(d, cid)
    IN IF ~summary.found
       THEN [candidate_id |-> cid, name |-> EmptyStr, summary |-> EmptyStr]
       ELSE [candidate_id |-> cid, name |-> summary.name, summary |-> summary.summary]

\* a join that skips the ids without a summary record
RECURSIVE join_summaries_drop_missing(_, _)
join_summaries_drop_missing(d, candidate_ids) ==
    IF candidate_ids = <<>> THEN <<>>
    ELSE (IF get_summary(d, Head(candidate_ids)).found
          THEN <<summary_entry(d, Head(candidate_ids))>> ELSE <<>>)
         \o join_summaries_drop_missing(d, Tail(candidate_ids))

RECURSIVE join_summaries(_, _)
join_summaries(d, candidate_ids) ==
    IF candidate_ids = <<>> THEN <<>>
    ELSE <<summary_entry(d, Head(candidate_ids))>>
         \o join_summaries(d, Tail(candidate_ids))

get_recent_summaries(d, session_id, limit) ==
    LET candidate_ids == get(d, session_id, limit)
    IN IF candidate_ids = <<>> THEN <<>> ELSE join_summaries(d, candidate_ids)

\* add_with_summary that lists the id before it writes the summary
add_with_summary_body_list_first == << "add", "set_summary" >>

\* the statements of add_with_summary, in program order
add_with_summary_body == << "set_summary", "add" >>

\* a first statement that also pushes the id on the list
run_statement_eager(d, stmt, f) ==
    add(set_summary(d, f.candidate_id, f.name, f.summary), f.session_id, f.candidate_id)

\* one statement of add_with_summary run for the call frame f
run_statement(d, stmt, f) ==
    IF stmt = "set_summary"
    THEN set_summary(d, f.candidate_id, f.name, f.summary)
    ELSE add(d, f.session_id, f.candidate_id)

-----------------------------------------------------------------------------
(* ResumeContextService *)

\* a service that reads with its default when the limit is not positive
get_recent_resume_summaries_clamped(d, session_id, limit) ==
    get_recent_summaries(d, session_id,
                         IF ~limit.none /\ limit.n <= 0 THEN Limit(10) ELSE limit)

get_recent_resume_summaries(d, session_id, limit) ==
    get_recent_summaries(d, session_id, limit)

\* the default of the limit parameter of get_recent_resume_summaries
service_default_limit == 10

\* a call without a limit that reads with no limit at all
get_recent_resume_summaries_unlimited(d, session_id) ==
    get_recent_resume_summaries(d, session_id, NoLimit)

\* get_recent_resume_summaries(session_id): the call without a limit
get_recent_resume_summaries_default(d, session_id) ==
    get_recent_resume_summaries(d, session_id, Limit(service_default_limit))

-----------------------------------------------------------------------------
(* Callers.  Every call but add_with_summary is one backend step; a caller  *)
(* inside add_with_summary holds a frame between its two statements.        *)

\* (name, summary) arguments: plain, empty, padded with blanks, long, missing
Views ==
    { [name |-> Str("Alice", 5), summary |-> Str("5y PM", 5)],
      [name |-> Str("Bob", 3), summary |-> Str("backend eng", 11)],
      [name |-> EmptyStr, summary |-> EmptyStr],
      [name |-> Text("Carol", 1, 5, 0), summary |-> Text("long", 0, 3000, 2)],
      [name |-> None, summary |-> None] }

\* what concurrent update_latest_view calls pass
LatestViews ==
    { [name |-> Str("Alice", 5), summary |-> Str("5y PM", 5)],
      [name |-> Str("Bob", 3), summary |-> Str("backend eng", 11)] }

Idle == [pc |-> "idle", session_id |-> "", candidate_id |-> "",
         name |-> EmptyStr, summary |-> EmptyStr, next |-> 0]

\* the statements a frame has executed
Done(f) == {add_with_summary_body[i] : i \in 1..(f.next - 1)}

NoPrompt == [status |-> "none"]

NoToolCall == [called |-> FALSE]

EmptyDb == [k \in Keys |-> NoKey]

Init ==
    /\ max_size \in 1..MaxSizeBound
    /\ ttl_seconds \in {0, MaxTtl}
    /\ db = EmptyDb
    /\ call = [p \in Callers |-> Idle]
    /\ log = [s \in Sessions |-> <<>>]
    /\ backend_up = TRUE
    /\ prompt = NoPrompt
    /\ tool = NoToolCall

config == <<max_size, ttl_seconds>>

\* a one-step call is issued by a caller that is not inside another call
SomeCallerIdle == {p \in Callers : call[p].pc = "idle"} # {}

Add(s, c) ==
    /\ SomeCallerIdle
    /\ db' = add(db, s, c)
    /\ UNCHANGED <<config, call, log, backend_up, prompt, tool>>

Remove(s, c) ==
    /\ SomeCallerIdle
    /\ db' = remove(db, s, c)
    /\ UNCHANGED <<config, call, log, backend_up, prompt, tool>>

Clear(s) ==
    /\ SomeCallerIdle
    /\ db' = clear(db, s)
    /\ UNCHANGED <<config, call, log, backend_up, prompt, tool>>

SetSummary(c, w) ==
    /\ SomeCallerIdle
    /\ db' = set_summary(db, c, w.name, w.summary)
    /\ UNCHANGED <<config, call, log, backend_up, prompt, tool>>

DeleteSummary(c) ==
    /\ SomeCallerIdle
    /\ db' = delete_summary(db, c)
    /\ UNCHANGED <<config, call, log, backend_up, prompt, tool>>

\* update_latest_view -> add_with_summary: enter and run the first statement
AddWithSummaryCall(p, s, c, w) ==
    /\ call[p].pc = "idle"
    /\ LET f == [pc |-> "add_with_summary", session_id |-> s, candidate_id |-> c,
                 name |-> w.name, summary |-> w.summary, next |-> 1]
       IN /\ db' = run_statement(db, add_with_summary_body[1], f)
          /\ call' = [call EXCEPT ![p] = [f EXCEPT !.next = 2]]
    /\ UNCHANGED <<config, log, backend_up, prompt, tool>>

\* run the next statement of the frame; return after the last one
AddWithSummaryStep(p) ==
    /\ call[p].pc = "add_with_summary"
    /\ db' = run_statement(db, add_with_summary_body[call[p].next], call[p])
    /\ call' = [call EXCEPT ![p] =
                   IF call[p].next = Len(add_with_summary_body)
                   THEN Idle ELSE [call[p] EXCEPT !.next = @ + 1]]
    /\ UNCHANGED <<config, log, backend_up, prompt, tool>>

\* one unit of time passes; keys whose time-to-live runs out disappear
Tick ==
    /\ \E k \in Keys : db[k].ttl > 0
    /\ db' = [k \in Keys |->
                 IF db[k].ttl = 1 THEN NoKey
                 ELSE IF db[k].ttl > 1 THEN [db[k] EXCEPT !.ttl = @ - 1]
                 ELSE db[k]]
    /\ UNCHANGED <<config, call, log, backend_up, prompt, tool>>

Next ==
    \/ \E s \in Sessions, c \in ConcCands : Add(s, c)
    \/ \E s \in Sessions, c \in ConcCands : Remove(s, c)
    \/ \E s \in Sessions : Clear(s)
    \/ \E c \in ConcCands, w \in LatestViews : SetSummary(c, w)
    \/ \E c \in ConcCands : DeleteSummary(c)
    \/ \E p \in Callers, s \in Sessions, c \in ConcCands, w \in LatestViews :
           AddWithSummaryCall(p, s, c, w)
    \/ \E p \in Callers : AddWithSummaryStep(p)

Spec == Init /\ [][Next]_vars


-----------------------------------------------------------------------------
(* Callers whose add_with_summary may stop between its statements: the      *)
(* process dies or the backend refuses the next command.                    *)

\* the call stops where it is; nothing it has written is taken back
Crash(p) ==
    /\ call[p].pc = "add_with_summary"
    /\ call' = [call EXCEPT ![p].pc = "failed"]
    /\ UNCHANGED <<config, db, log, backend_up, prompt, tool>>

\* the caller is back (restarted, or the exception reached it)
Return(p) ==
    /\ call[p].pc = "failed"
    /\ call' = [call EXCEPT ![p] = Idle]
    /\ UNCHANGED <<config, db, log, backend_up, prompt, tool>>

NextCrash ==
    \/ Next
    \/ \E p \in Callers : Crash(p)
    \/ \E p \in Callers : Return(p)

SpecCrash == Init /\ [][NextCrash]_vars

-----------------------------------------------------------------------------
(* One caller issuing add / update_latest_view / clear on a session, with   *)
(* the history of the ids it added since the list was last cleared.         *)

\* add_with_summary run by a caller nobody interleaves with
RECURSIVE run_statements(_, _, _)
run_statements(d, stmts, f) ==
    IF stmts = <<>> THEN d
    ELSE run_statements(run_statement(d, Head(stmts), f), Tail(stmts), f)

add_with_summary(d, session_id, candidate_id, name, summary) ==
    run_statements(d, add_with_summary_body,
                   [session_id |-> session_id, candidate_id |-> candidate_id,
                    name |-> name, summary |-> summary])

\* update_latest_view that lists the id and writes no summary
update_latest_view_list_only(d, session_id, candidate_id, name, summary) ==
    add(d, session_id, candidate_id)

update_latest_view(d, session_id, candidate_id, name, summary) ==
    add_with_summary(d, session_id, candidate_id, name, summary)

-----------------------------------------------------------------------------
(* The store while time passes: a caller nobody interleaves with, and the   *)
(* clock.                                                                   *)

\* what set_summary is called with: a pair, or nothing to say
SummaryViews ==
    LatestViews \cup { [name |-> EmptyStr, summary |-> EmptyStr],
                       [name |-> None, summary |-> None] }

UpdateLatestView(s, c, w) ==
    /\ SomeCallerIdle
    /\ db' = update_latest_view(db, s, c, w.name, w.summary)
    /\ UNCHANGED <<config, call, log, backend_up, prompt, tool>>

NextTtl ==
    \/ \E s \in Sessions, c \in ConcCands : Add(s, c)
    \/ \E s \in Sessions, c \in ConcCands : Remove(s, c)
    \/ \E s \in Sessions : Clear(s)
    \/ \E c \in ConcCands, w \in LatestViews : SetSummary(c, w)
    \/ \E c \in ConcCands : DeleteSummary(c)
    \/ \E s \in Sessions, c \in ConcCands, w \in LatestViews : UpdateLatestView(s, c, w)
    \/ Tick

SpecTtl == Init /\ [][NextTtl]_vars

\* one session, summaries that may be empty or missing, and the clock
NextExpiry ==
    \/ \E s \in SeqSessions, c \in ConcCands : Add(s, c)
    \/ \E s \in SeqSessions, c \in ConcCands : Remove(s, c)
    \/ \E s \in SeqSessions : Clear(s)
    \/ \E c \in ConcCands, w \in SummaryViews : SetSummary(c, w)
    \/ \E c \in ConcCands : DeleteSummary(c)
    \/ \E s \in SeqSessions, c \in ConcCands, w \in LatestViews : UpdateLatestView(s, c, w)
    \/ Tick

SpecExpiry == Init /\ [][NextExpiry]_vars

\* sessions that only view resumes, and the clock
NextViews ==
    \/ \E s \in Sessions, c \in ConcCands, w \in LatestViews : UpdateLatestView(s, c, w)
    \/ Tick

SpecViews == Init /\ [][NextViews]_vars

\* two callers that only write: set_summary and add_with_summary, interleaved
NextWrites ==
    \/ \E c \in ConcCands, w \in SummaryViews : SetSummary(c, w)
    \/ \E p \in Callers, s \in SeqSessions, c \in ConcCands, w \in LatestViews :
           AddWithSummaryCall(p, s, c, w)
    \/ \E p \in Callers : AddWithSummaryStep(p)

SpecWrites == Init /\ [][NextWrites]_vars

SeqAdd(s, c) ==
    /\ Len(log[s]) < MaxLog
    /\ db' = add(db, s, c)
    /\ log' = [log EXCEPT ![s] = Append(@, c)]
    /\ UNCHANGED <<config, call, backend_up, prompt, tool>>

SeqUpdateLatestView(s, c, w) ==
    /\ Len(log[s]) < MaxLog
    /\ db' = update_latest_view(db, s, c, w.name, w.summary)
    /\ log' = [log EXCEPT ![s] = Append(@, c)]
    /\ UNCHANGED <<config, call, backend_up, prompt, tool>>

SeqClear(s) ==
    /\ db' = clear(db, s)
    /\ log' = [log EXCEPT ![s] = <<>>]
    /\ UNCHANGED <<config, call, backend_up, prompt, tool>>

NextSeq ==
    \/ \E s \in SeqSessions, c \in Cands : SeqAdd(s, c)
    \/ \E s \in SeqSessions, c \in Cands, w \in LatestViews :
           SeqUpdateLatestView(s, c, w)
    \/ \E s \in SeqSessions : SeqClear(s)

SpecSeq == Init /\ [][NextSeq]_vars

\* the same caller also removing ids; log keeps what was added
SeqRemove(s, c) ==
    /\ db' = remove(db, s, c)
    /\ UNCHANGED <<config, call, log, backend_up, prompt, tool>>

NextRemove ==
    \/ \E s \in SeqSessions, c \in ConcCands : SeqAdd(s, c)
    \/ \E s \in SeqSessions, c \in ConcCands : SeqRemove(s, c)
    \/ \E s \in SeqSessions : SeqClear(s)

SpecRemove == Init /\ [][NextRemove]_vars

-----------------------------------------------------------------------------
(* The same caller on a store built from any max_size argument.             *)

\* ResumeStore.__init__: the arguments are stored as they are given
ResumeStore__init__(max_size_arg, ttl_seconds_arg) ==
    [raised |-> FALSE, max_size |-> max_size_arg, ttl_seconds |-> ttl_seconds_arg]

\* the max_size arguments a configuration may carry
MaxSizeArgs == (-1)..MaxSizeBound

InitCfg ==
    /\ \E m \in MaxSizeArgs, t \in {0, MaxTtl} :
          LET store == ResumeStore__init__(m, t)
          IN /\ ~store.raised
             /\ max_size = store.max_size
             /\ ttl_seconds = store.ttl_seconds
    /\ db = EmptyDb
    /\ call = [p \in Callers |-> Idle]
    /\ log = [s \in Sessions |-> <<>>]
    /\ backend_up = TRUE
    /\ prompt = NoPrompt
    /\ tool = NoToolCall

SpecCfg == InitCfg /\ [][NextSeq]_vars

-----------------------------------------------------------------------------
(* ContextManager: the recent-resume block and the system prompt *)

MAX_RECENT_RESUME_BLOCK_CHARS == 15000
MAX_SINGLE_SUMMARY_CHARS == 2000
recent_resume_limit == 5

\* len() of the literals of _build_recent_resume_block
HeaderChars == 11
BlockMarkerChars == 20
CandidateIdPrefixChars == 16
NamePrefixChars == 8
SummaryPrefixChars == 11
SummaryMarkerHeadChars == 10
SummaryMarkerTailChars == 3

\* str.strip()
Strip(t) == IF t.core = 0 THEN EmptyStr ELSE Text(t.tag, 0, t.core, 0)

\* the number of decimal digits of len(...) in an f-string
RECURSIVE Digits(_)
Digits(n) == IF n < 10 THEN 1 ELSE 1 + Digits(n \div 10)

\* a line of the block: what it shows, its length, its trailing blanks
Line(kind, text, cut, total, len) ==
    [kind |-> kind, text |-> text, cut |-> cut, total |-> total, len |-> len]

HeaderLine == Line("header", EmptyStr, FALSE, 0, HeaderChars)
BlockMarkerLine == Line("truncated", EmptyStr, FALSE, 0, BlockMarkerChars)

\* an item whose marker states the length that was kept
item_lines_marker_kept_length(item) ==
    LET candidate_id == Strip(OrEmpty(Str(item.candidate_id, Len(item.candidate_id))))
        name == Strip(OrEmpty(item.name))
        summary == Strip(OrEmpty(item.summary))
        cut == StrLen(summary) > MAX_SINGLE_SUMMARY_CHARS
        shown == IF cut THEN Str(summary.tag, MAX_SINGLE_SUMMARY_CHARS) ELSE summary
        total == StrLen(shown)
        marker == IF cut
                  THEN SummaryMarkerHeadChars + Digits(total) + SummaryMarkerTailChars
                  ELSE 0
    IN << Line("candidate_id", candidate_id, FALSE, 0,
               CandidateIdPrefixChars + StrLen(candidate_id)),
          Line("name", name, FALSE, 0, NamePrefixChars + StrLen(name)),
          Line("summary", shown, cut, IF cut THEN total ELSE 0,
               SummaryPrefixChars + StrLen(shown) + marker) >>

\* the three lines of one item
item_lines(item) ==
    LET candidate_id == Strip(OrEmpty(Str(item.candidate_id, Len(item.candidate_id))))
        name == Strip(OrEmpty(item.name))
        summary == Strip(OrEmpty(item.summary))
        cut == StrLen(summary) > MAX_SINGLE_SUMMARY_CHARS
        shown == IF cut THEN Str(summary.tag, MAX_SINGLE_SUMMARY_CHARS) ELSE summary
        total == StrLen(item.summary)
        marker == IF cut
                  THEN SummaryMarkerHeadChars + Digits(total) + SummaryMarkerTailChars
                  ELSE 0
    IN << Line("candidate_id", candidate_id, FALSE, 0,
               CandidateIdPrefixChars + StrLen(candidate_id)),
          Line("name", name, FALSE, 0, NamePrefixChars + StrLen(name)),
          Line("summary", shown, cut, IF cut THEN total ELSE 0,
               SummaryPrefixChars + StrLen(shown) + marker) >>

block_size(lines3) == lines3[1].len + lines3[2].len + lines3[3].len + 3

\* a loop that stops at the cap without saying so
RECURSIVE render_items_no_marker(_, _, _)
render_items_no_marker(items, lines, total) ==
    IF items = <<>> THEN lines
    ELSE IF total + block_size(item_lines(Head(items))) > MAX_RECENT_RESUME_BLOCK_CHARS
    THEN lines
    ELSE render_items_no_marker(Tail(items), lines \o item_lines(Head(items)),
                                total + block_size(item_lines(Head(items))))

\* the loop over the items: the lines so far and the running total
RECURSIVE render_items(_, _, _)
render_items(items, lines, total) ==
    IF items = <<>> THEN lines
    ELSE IF total >= MAX_RECENT_RESUME_BLOCK_CHARS THEN Append(lines, BlockMarkerLine)
    ELSE IF total + block_size(item_lines(Head(items))) > MAX_RECENT_RESUME_BLOCK_CHARS
    THEN Append(lines, BlockMarkerLine)
    ELSE render_items(Tail(items), lines \o item_lines(Head(items)),
                      total + block_size(item_lines(Head(items))))

RECURSIVE SumLen(_)
SumLen(lines) == IF lines = <<>> THEN 0 ELSE Head(lines).len + SumLen(Tail(lines))

\* blanks that "\n".join(lines).strip() removes: a last line ending in ": "
TrailingBlanks(lines) ==
    IF lines # <<>> /\ lines[Len(lines)].kind \in {"candidate_id", "name", "summary"}
                    /\ StrLen(lines[Len(lines)].text) = 0
                    /\ ~lines[Len(lines)].cut
    THEN 1 ELSE 0

\* len("\n".join(lines).strip())
JoinedChars(lines) ==
    IF lines = <<>> THEN 0
    ELSE SumLen(lines) + (Len(lines) - 1) - TrailingBlanks(lines)

\* ContextManager.get_recent_resume_summaries
cm_get_recent_resume_summaries(d, session_id, limit) ==
    get_recent_resume_summaries(d, session_id, limit)

\* a block that keeps its header when there is nothing to list
_build_recent_resume_block_header_always(d, session_id, limit) ==
    render_items(cm_get_recent_resume_summaries(d, session_id, limit), <<HeaderLine>>, 0)

\* the block as its lines; no lines stand for the empty string
_build_recent_resume_block(d, session_id, limit) ==
    LET items == cm_get_recent_resume_summaries(d, session_id, limit)
    IN IF items = <<>> THEN <<>> ELSE render_items(items, <<HeaderLine>>, 0)

\* runtime_info: None (or {}) or a dict; clock is the _get_current_time callable
NoRuntimeInfo ==
    [present |-> FALSE, clock |-> "none", current_time |-> "", weekday |-> "",
     timezone |-> "", model |-> "", workspace |-> "", channel |-> ""]

RuntimeInfos ==
    { NoRuntimeInfo,
      [present |-> TRUE, clock |-> "none", current_time |-> "10:00", weekday |-> "Fri",
       timezone |-> "", model |-> "m1", workspace |-> "", channel |-> "web"],
      [present |-> TRUE, clock |-> "raises", current_time |-> "", weekday |-> "",
       timezone |-> "", model |-> "", workspace |-> "", channel |-> ""] }

RECURSIVE JoinParts(_)
JoinParts(parts) ==
    IF Len(parts) = 1 THEN Head(parts) ELSE Head(parts) \o " | " \o JoinParts(Tail(parts))

\* drop the trailing empty lines, as strip() of the joined text does
RECURSIVE StripLines(_)
StripLines(lines) ==
    IF lines # <<>> /\ lines[Len(lines)] = ""
    THEN StripLines(SubSeq(lines, 1, Len(lines) - 1)) ELSE lines

_build_runtime_info_block(runtime_info) ==
    IF ~runtime_info.present THEN <<>>
    ELSE
      LET time_lines ==
            IF runtime_info.clock # "none"
            THEN (IF runtime_info.clock = "ok" THEN << "time: now", "" >> ELSE << >>)
            ELSE IF runtime_info.current_time # ""
            THEN << "time: " \o runtime_info.current_time
                    \o (IF runtime_info.weekday # ""
                        THEN " " \o runtime_info.weekday ELSE "")
                    \o (IF runtime_info.timezone # ""
                        THEN " (" \o runtime_info.timezone \o ")" ELSE ""), "" >>
            ELSE << >>
          runtime_parts ==
            (IF runtime_info.model # "" THEN << "model=" \o runtime_info.model >> ELSE << >>)
            \o (IF runtime_info.workspace # ""
                THEN << "workspace=" \o runtime_info.workspace >> ELSE << >>)
            \o (IF runtime_info.channel # "" /\ runtime_info.channel # "web"
                THEN << "channel=" \o runtime_info.channel >> ELSE << >>)
          part_lines ==
            IF runtime_parts # << >>
            THEN << "runtime: " \o JoinParts(runtime_parts), "" >> ELSE << >>
      IN StripLines(<< "## runtime", "" >> \o time_lines \o part_lines)

\* the blocks of the prompt, joined by blank lines; `loaded` is what
\* system_loader.read() returns; a store read on a dead backend raises
build_system_prompt(d, up, session_id, runtime_info, recent_limit, base_prompt, loaded) ==
    LET base == IF base_prompt # None /\ Truthy(Strip(base_prompt))
                THEN Strip(base_prompt) ELSE Strip(OrEmpty(loaded))
        block_limit == IF ~recent_limit.none THEN recent_limit
                       ELSE Limit(recent_resume_limit)
        recent_block == _build_recent_resume_block(d, session_id, block_limit)
        runtime_block == _build_runtime_info_block(runtime_info)
    IN IF ~up
       THEN [status |-> "raised", up |-> up, blocks |-> << >>]
       ELSE [status |-> "ok", up |-> up,
             blocks |->
                (IF Truthy(base) THEN << [kind |-> "base", text |-> base] >> ELSE << >>)
                \o (IF recent_block # << >>
                    THEN << [kind |-> "recent", lines |-> recent_block] >> ELSE << >>)
                \o (IF runtime_block # << >>
                    THEN << [kind |-> "runtime", lines |-> runtime_block] >> ELSE << >>)]

\* what the sessions of the prompt runs view: short, long and empty texts
PromptViews ==
    { [name |-> Str("Alice", 5), summary |-> Str("5y PM", 5)],
      [name |-> Str("Dan", 14960), summary |-> EmptyStr],
      [name |-> Str("Eve", 7455), summary |-> EmptyStr],
      [name |-> Text("Carol", 1, 5, 0), summary |-> Text("long", 0, 3000, 2)] }

PromptLimits == {NoLimit, Limit(0), Limit(1), Limit(10)}

BasePrompts == {None, Str("online base", 40)}

LoadedPrompts == {Str("system_prompt.md", 100)}

\* the stores the prompt is built from: what up to MaxPromptCalls
\* update_latest_view calls leave behind
PromptCalls ==
    [session_id : SeqSessions, candidate_id : ConcCands, view : PromptViews]

RECURSIVE ApplyUpdates(_, _)
ApplyUpdates(d, q) ==
    IF q = <<>> THEN d
    ELSE ApplyUpdates(update_latest_view(d, Head(q).session_id, Head(q).candidate_id,
                                         Head(q).view.name, Head(q).view.summary),
                      Tail(q))

PromptDbs ==
    {ApplyUpdates(EmptyDb, q) : q \in UNION {[1..n -> PromptCalls] : n \in 0..MaxPromptCalls}}

InitPrompt ==
    /\ max_size \in 1..MaxSizeBound
    /\ ttl_seconds \in {0, MaxTtl}
    /\ db \in PromptDbs
    /\ call = [p \in Callers |-> Idle]
    /\ log = [s \in Sessions |-> <<>>]
    /\ backend_up = TRUE
    /\ prompt = NoPrompt
    /\ tool = NoToolCall

BuildSystemPrompt(s, runtime_info, recent_limit, base_prompt, loaded) ==
    /\ prompt' = build_system_prompt(db, backend_up, s, runtime_info, recent_limit,
                                     base_prompt, loaded)
    /\ UNCHANGED <<config, db, call, log, backend_up, tool>>

BackendFails ==
    /\ backend_up
    /\ backend_up' = FALSE
    /\ UNCHANGED <<config, db, call, log, prompt, tool>>

BackendRecovers ==
    /\ ~backend_up
    /\ backend_up' = TRUE
    /\ UNCHANGED <<config, db, call, log, prompt, tool>>

NextPrompt ==
    \/ \E s \in SeqSessions, i \in RuntimeInfos, l \in PromptLimits,
          b \in BasePrompts, f \in LoadedPrompts :
           BuildSystemPrompt(s, i, l, b, f)
    \/ BackendFails
    \/ BackendRecovers

SpecPrompt == InitPrompt /\ [][NextPrompt]_vars

-----------------------------------------------------------------------------
(* A default-configured agent: ResumeStore() and ContextManager() with the  *)
(* defaults of their constructors, after a session viewed some resumes.     *)

default_max_size == 50
default_ttl_seconds == 7 * 24 * 3600

\* the i-th resume the session views
ViewedCand(i) == "c" \o ToString(i)

DefaultKeys ==
    {_recent_key(s) : s \in SeqSessions} \cup {_summary_key(ViewedCand(i)) : i \in 1..MaxViewed}

\* what the session sees of its i-th resume
ViewOf(i) ==
    IF i % 2 = 1 THEN [name |-> Str("Alice", 5), summary |-> Str("5y PM", 5)]
    ELSE [name |-> Str("Bob", 3), summary |-> Str("backend eng", 11)]

InitDefault ==
    /\ LET store == ResumeStore__init__(default_max_size, default_ttl_seconds)
       IN /\ max_size = store.max_size
          /\ ttl_seconds = store.ttl_seconds
    /\ db = [k \in DefaultKeys |-> NoKey]
    /\ call = [p \in Callers |-> Idle]
    /\ log = [s \in Sessions |-> <<>>]
    /\ backend_up = TRUE
    /\ prompt = NoPrompt
    /\ tool = NoToolCall

\* the session views one more resume it has not seen yet
ViewNext(s) ==
    LET i == Len(db[_recent_key(s)].items) + 1
    IN /\ backend_up
       /\ i <= MaxViewed
       /\ db' = update_latest_view(db, s, ViewedCand(i), ViewOf(i).name, ViewOf(i).summary)
       /\ UNCHANGED <<config, call, log, backend_up, prompt, tool>>

NextDefault ==
    \/ \E s \in SeqSessions : ViewNext(s)
    \/ \E s \in SeqSessions, i \in RuntimeInfos, l \in PromptLimits,
          b \in BasePrompts, f \in LoadedPrompts :
           BuildSystemPrompt(s, i, l, b, f)
    \/ BackendFails
    \/ BackendRecovers

SpecDefault == InitDefault /\ [][NextDefault]_vars

-----------------------------------------------------------------------------
(* ResumeSearch: the tool that calls the resume service over HTTP.  The    *)
(* service is opaque: its answer to a request is an input of the call.     *)

ToolResult_success(result) == [status |-> "success", result |-> result]

ToolResult_fail(message) == [status |-> "error", result |-> [kind |-> "str", text |-> message]]

\* a JSON object / Python dict: its top-level items
Dict(items) == [kind |-> "dict", items |-> items]

\* dict.get(key): the value, or None for a key the dict does not have
DictGetOrNone(out, key) ==
    IF out.kind = "dict" /\ key \in DOMAIN out.items THEN out.items[key] ELSE "None"

\* str.lower() of the action names a caller may spell in capitals
Lower(t) == IF t.tag = "UPDATE" THEN [t EXCEPT !.tag = "update"] ELSE t

\* what requests.request gives back: a response, or an exception
NoRequest == [sent |-> FALSE]

\* how the resume service answers a request (what the tool sees of it)
Answers ==
    [kind : {"response"}, status_code : {200, 404, 500}, result : {"updated", "created"}]
    \cup {[kind |-> "timeout", status_code |-> 0, result |-> ""],
          [kind |-> "connection", status_code |-> 0, result |-> ""]}

\* resp.json() of the service's answer to POST /update
update_json(payload, answer) ==
    Dict([result |-> answer.result, id |-> payload.candidate_id.tag])

_build_update_card(name, fields) ==
    [header |-> name, elements |-> fields.keys]

\* the request _do_update sends, if any, and what it returns or raises
_do_update(args, answer) ==
    LET candidate_id == Strip(OrEmpty(args.candidate_id))
        payload == [candidate_id |-> candidate_id, fields |-> args.fields,
                    upsert |-> (args.upsert = "true")]
        name == IF Truthy(args.fields.name_full) THEN args.fields.name_full
                ELSE candidate_id
    IN IF ~Truthy(candidate_id)
       THEN [request |-> NoRequest, out |-> ToolResult_fail("candidate_id is required")]
       ELSE IF ~args.fields.is_dict
       THEN [request |-> NoRequest, out |-> ToolResult_fail("fields must be an object")]
       ELSE IF answer.kind # "response"
       THEN [request |-> payload, out |-> [status |-> "raised", result |-> answer.kind]]
       ELSE IF answer.status_code = 404
       THEN [request |-> payload, out |-> ToolResult_fail("Resume not found")]
       ELSE IF answer.status_code # 200
       THEN [request |-> payload, out |-> ToolResult_fail("HTTP error")]
       ELSE [request |-> payload,
             out |-> ToolResult_success(
                        Dict([type |-> "feishu_card",
                              title |-> name,
                              card |-> _build_update_card(name, args.fields),
                              update_result |-> update_json(payload, answer)]))]

\* ResumeSearch.execute for the update action; the exceptions of the request
\* become failures
execute(args, answer) ==
    LET action == Lower(Strip(OrEmpty(args.action)))
    IN IF ~Truthy(action)
       THEN [request |-> NoRequest, out |-> ToolResult_fail("action is required")]
       ELSE IF action.tag = "update"
       THEN LET r == _do_update(args, answer)
            IN IF r.out.status = "raised"
               THEN [request |-> r.request, out |-> ToolResult_fail(r.out.result)]
               ELSE r
       ELSE [request |-> NoRequest, out |-> ToolResult_fail("unknown action")]

\* the arguments the agent passes to the tool
ToolActions == {None, EmptyStr, Str("update", 6), Text("UPDATE", 1, 6, 1), Str("purge", 5)}

ToolCandidateIds == {None, Text("", 1, 0, 1), Str("c1", 2), Text("c2", 1, 2, 0)}

ToolFields ==
    { [is_dict |-> FALSE, keys |-> {}, name_full |-> None],
      [is_dict |-> TRUE, keys |-> {"notes_internal"}, name_full |-> None],
      [is_dict |-> TRUE, keys |-> {"name_full", "summary"}, name_full |-> Str("Alice", 5)] }

ToolArgs ==
    [action : ToolActions, candidate_id : ToolCandidateIds, fields : ToolFields,
     upsert : {"absent", "false", "true"}]

InitTool ==
    /\ max_size = default_max_size
    /\ ttl_seconds = default_ttl_seconds
    /\ db = EmptyDb
    /\ call = [p \in Callers |-> Idle]
    /\ log = [s \in Sessions |-> <<>>]
    /\ backend_up = TRUE
    /\ prompt = NoPrompt
    /\ tool = NoToolCall

ResumeSearchExecute(args, answer) ==
    /\ tool' = [called |-> TRUE, args |-> args, answer |-> answer,
                request |-> execute(args, answer).request,
                out |-> execute(args, answer).out]
    /\ UNCHANGED <<config, db, call, log, backend_up, prompt>>

NextTool == \E args \in ToolArgs, answer \in Answers : ResumeSearchExecute(args, answer)

SpecTool == InitTool /\ [][NextTool]_vars

-----------------------------------------------------------------------------
(* Properties *)

NoDup(q) == \A i, j \in 1..Len(q) : i # j => q[i] # q[j]

Take(q, n) == SubSeq(q, 1, Min(n, Len(q)))

Reverse(q) == [i \in 1..Len(q) |-> q[Len(q) + 1 - i]]

Without(q, x) == SelectSeq(q, LAMBDA y : y # x)

Contains(q, x) == \E i \in 1..Len(q) : q[i] = x

\* q without the later occurrences of an element
RECURSIVE Dedup(_)
Dedup(q) ==
    IF q = <<>> THEN <<>> ELSE <<Head(q)>> \o Dedup(Without(Tail(q), Head(q)))

\* the limits a reader may pass to get
Limits == {NoLimit} \cup {Limit(n) : n \in (-1)..(MaxSizeBound + 2)}

InFlight(p) == call[p].pc = "add_with_summary"

\* C1: whatever callers run concurrently on a session, every list a reader
\* gets holds no candidate id twice and at most max_size ids.
C1_ReaderSeesUniqueBoundedList ==
    \A s \in Sessions, lim \in Limits :
        /\ NoDup(get(db, s, lim))
        /\ Len(get(db, s, lim)) <= max_size

\* two add_with_summary calls are in flight on one session whose list is full
C1_Witness ==
    \E s \in Sessions :
        /\ \A p \in Callers : InFlight(p) /\ call[p].session_id = s
        /\ Len(get(db, s, Limit(MaxSizeBound + 2))) = max_size
        /\ max_size > 1

\* C2: add(session, X) leaves X followed by the other ids in their previous
\* order, cut to max_size; the list is the ids added, most recent first,
\* and add X, add Y, add X on an empty session gives [X, Y].
C2_AddMovesToHead ==
    /\ \A s \in Sessions, x \in Cands :
          get(add(db, s, x), s, NoLimit)
              = Take(<<x>> \o Without(get(db, s, NoLimit), x), max_size)
    /\ \A s \in SeqSessions :
          get(db, s, NoLimit) = Take(Dedup(Reverse(log[s])), max_size)
    /\ \A s \in SeqSessions, x, y \in Cands :
          (x # y /\ log[s] = <<x, y, x>> /\ max_size >= 2)
              => get(db, s, NoLimit) = <<x, y>>

\* add c1, add c2, add c1 was run on the empty session and left [c1, c2]
C2_Witness ==
    /\ log["s1"] = <<"c1", "c2", "c1">>
    /\ get(db, "s1", NoLimit) = <<"c1", "c2">>

\* C3: after max_size + k distinct ids (k >= 1) were added to a session its
\* list holds exactly the max_size most recently added ids, newest first.
C3_CapKeepsNewest ==
    \A s \in SeqSessions :
        (NoDup(log[s]) /\ Len(log[s]) > max_size)
            => /\ get(db, s, Limit(Len(log[s]))) = Take(Reverse(log[s]), max_size)
               /\ Len(get(db, s, Limit(Len(log[s])))) = max_size

\* max_size + 1 distinct ids were added and the oldest one was evicted
C3_Witness ==
    /\ NoDup(log["s1"])
    /\ Len(log["s1"]) = max_size + 1
    /\ ~Contains(get(db, "s1", NoLimit), log["s1"][1])
    /\ Len(get(db, "s1", NoLimit)) = max_size

\* C4: a caller inside add_with_summary has put its id on the list only
\* after its own summary write was committed.
C4_SummaryCommittedBeforeListed ==
    \A p \in Callers :
        (InFlight(p) /\ "add" \in Done(call[p])) => "set_summary" \in Done(call[p])

\* a call is between its statements: its summary is readable, its id not listed
C4_Witness ==
    \E p \in Callers :
        /\ InFlight(p)
        /\ Done(call[p]) = {"set_summary"}
        /\ get_summary(db, call[p].candidate_id)
              = [found |-> TRUE, name |-> call[p].name, summary |-> call[p].summary]
        /\ ~Contains(get(db, call[p].session_id, NoLimit), call[p].candidate_id)

\* C6 as stated: with a TTL configured, add, remove and the list step of
\* add_with_summary reset the list key's expiry to ttl_seconds, and
\* set_summary resets the summary key's expiry to ttl_seconds.
C6_EveryMutationRefreshesTtl ==
    ttl_seconds # 0 =>
        \A s \in Sessions, c \in ConcCands, w \in LatestViews :
            /\ add(db, s, c)[_recent_key(s)].ttl = ttl_seconds
            /\ update_latest_view(db, s, c, w.name, w.summary)[_recent_key(s)].ttl
                  = ttl_seconds
            /\ set_summary(db, c, w.name, w.summary)[_summary_key(c)].ttl = ttl_seconds
            /\ (/\ remove_result(db, s, c) > 0
                /\ remove(db, s, c)[_recent_key(s)].kind = "list")
                  => remove(db, s, c)[_recent_key(s)].ttl = ttl_seconds

\* C6 (amended): with a TTL configured, add and the list step of
\* add_with_summary reset the list key's expiry to ttl_seconds and
\* set_summary resets the summary key's expiry to ttl_seconds; remove leaves
\* the expiry of the list key as it was; without a TTL no expiry is set.
C6_AddAndSetSummaryRefreshTtl ==
    \A s \in Sessions, c \in ConcCands, w \in LatestViews :
        /\ add(db, s, c)[_recent_key(s)].ttl = ttl_seconds
        /\ update_latest_view(db, s, c, w.name, w.summary)[_recent_key(s)].ttl
              = ttl_seconds
        /\ update_latest_view(db, s, c, w.name, w.summary)[_summary_key(c)].ttl
              = ttl_seconds
        /\ set_summary(db, c, w.name, w.summary)[_summary_key(c)].ttl = ttl_seconds
        /\ remove(db, s, c)[_recent_key(s)].kind = "list"
              => remove(db, s, c)[_recent_key(s)].ttl = db[_recent_key(s)].ttl

\* time has passed since c1's summary was written, and a later add has put
\* the expiry of the list back to ttl_seconds
C6_Witness ==
    \E s \in Sessions :
        /\ ttl_seconds > 1
        /\ db[_summary_key("c1")].kind = "hash"
        /\ db[_summary_key("c1")].ttl < ttl_seconds
        /\ Len(get(db, s, NoLimit)) = 2
        /\ db[_recent_key(s)].ttl = ttl_seconds

\* C8: get_recent_summaries returns one entry per id that get returns, in the
\* same order; an id without a summary record yields empty name and summary;
\* update_latest_view of c1 (Alice) then c2 (Bob) on s1 reads back as c2, c1.
C8_OneEntryPerListedId ==
    /\ \A s \in Sessions, lim \in Limits :
          LET ids == get(db, s, lim)
              out == get_recent_resume_summaries(db, s, lim)
          IN /\ Len(out) = Len(ids)
             /\ \A i \in 1..Len(ids) :
                   /\ out[i].candidate_id = ids[i]
                   /\ IF db[_summary_key(ids[i])].kind = "none"
                      THEN out[i].name = EmptyStr /\ out[i].summary = EmptyStr
                      ELSE /\ out[i].name = db[_summary_key(ids[i])].hash.name
                           /\ out[i].summary = db[_summary_key(ids[i])].hash.summary
    /\ (max_size >= 2 /\ get(db, "s1", NoLimit) = <<>>) =>
          get_recent_resume_summaries(
              update_latest_view(
                  update_latest_view(db, "s1", "c1", Str("Alice", 5), Str("5y PM", 5)),
                  "s1", "c2", Str("Bob", 3), Str("backend eng", 11)),
              "s1", Limit(10))
            = << [candidate_id |-> "c2", name |-> Str("Bob", 3),
                  summary |-> Str("backend eng", 11)],
                 [candidate_id |-> "c1", name |-> Str("Alice", 5),
                  summary |-> Str("5y PM", 5)] >>

\* c1 is listed before c2, c1's summary record is gone and c2's is there
C8_Witness ==
    \E s \in Sessions :
        /\ get(db, s, NoLimit) = <<"c1", "c2">>
        /\ db[_summary_key("c1")].kind = "none"
        /\ get_recent_resume_summaries(db, s, Limit(10))
              = << [candidate_id |-> "c1", name |-> EmptyStr, summary |-> EmptyStr],
                   [candidate_id |-> "c2", name |-> Str("Bob", 3),
                    summary |-> Str("backend eng", 11)] >>

\* the (name, summary) arguments that are strings
StrViews == {w \in Views : w.name # None /\ w.summary # None}

\* C9: set_summary(id, A, B) then get_summary(id) returns {name: A, summary: B};
\* delete_summary(id) then get_summary(id) returns absent.
C9_SummaryRoundTrip ==
    \A c \in Cands :
        /\ \A w \in StrViews :
              get_summary(set_summary(db, c, w.name, w.summary), c)
                  = [found |-> TRUE, name |-> w.name, summary |-> w.summary]
        /\ get_summary(delete_summary(db, c), c) = NotFound

\* c1's record was written and reads back, c2's record was written and deleted
C9_Witness ==
    /\ get_summary(db, "c1")
          = [found |-> TRUE, name |-> Str("Alice", 5), summary |-> Str("5y PM", 5)]
    /\ get_summary(db, "c2") = NotFound
    /\ Contains(get(db, "s1", NoLimit), "c2")

\* the whole list of a session, as a reader gets it
WholeList(d, s) == get(d, s, Limit(MaxSizeBound + 2))

\* C10: add, remove, clear and add_with_summary on a session, and every
\* pending statement of a call in flight on it, leave the list of every
\* other session as it was.
C10_SessionsIndependent ==
    \A a, b \in Sessions :
        a # b =>
            /\ \A c \in Cands :
                  /\ WholeList(add(db, a, c), b) = WholeList(db, b)
                  /\ WholeList(remove(db, a, c), b) = WholeList(db, b)
                  /\ \A w \in LatestViews :
                        WholeList(add_with_summary(db, a, c, w.name, w.summary), b)
                            = WholeList(db, b)
            /\ WholeList(clear(db, a), b) = WholeList(db, b)
            /\ \A p \in Callers :
                  (InFlight(p) /\ call[p].session_id = a) =>
                      WholeList(run_statement(db, add_with_summary_body[call[p].next],
                                              call[p]), b)
                          = WholeList(db, b)

\* both sessions hold lists, in different orders, while a call is in flight
C10_Witness ==
    /\ get(db, "s1", NoLimit) = <<"c1", "c2">>
    /\ get(db, "s2", NoLimit) = <<"c2", "c1">>
    /\ \E p \in Callers : InFlight(p) /\ call[p].session_id = "s1"

\* the recent-resume block of the last prompt, if it has one
RecentLines(pr) ==
    IF \E i \in 1..Len(pr.blocks) : pr.blocks[i].kind = "recent"
    THEN (CHOOSE b \in {pr.blocks[i] : i \in 1..Len(pr.blocks)} : b.kind = "recent").lines
    ELSE << >>

HasBlockMarker(lines) == \E i \in 1..Len(lines) : lines[i].kind = "truncated"

\* C5: built while the backend is down, the prompt is still returned, made
\* of the base and runtime blocks without the recent-resume block.
C5_PromptSurvivesBackendOutage ==
    (prompt.status # "none" /\ ~prompt.up) =>
        /\ prompt.status = "ok"
        /\ RecentLines(prompt) = << >>

\* C7: a block that was cut at the whole-block cap is, header included, at
\* most 15000 characters plus the truncation marker line long.
C7_BlockWithinCapPlusMarker ==
    (prompt.status = "ok" /\ HasBlockMarker(RecentLines(prompt))) =>
        JoinedChars(RecentLines(prompt))
            <= MAX_RECENT_RESUME_BLOCK_CHARS + BlockMarkerChars

\* C11: get without a limit returns at most max_size ids, a limit of zero or
\* below gives exactly what no limit gives, and a session that has no list
\* gives the empty sequence whatever the limit.
C11_NonPositiveLimitIsDefault ==
    \A s \in Sessions :
        /\ get(db, s, NoLimit) = Take(db[_recent_key(s)].items, max_size)
        /\ Len(get(db, s, NoLimit)) <= max_size
        /\ \A n \in (-2)..0 : get(db, s, Limit(n)) = get(db, s, NoLimit)
        /\ db[_recent_key(s)].kind = "none"
              => \A lim \in Limits : get(db, s, lim) = <<>>

\* one session holds a full list of two ids, the other has no list
C11_Witness ==
    /\ max_size = 2
    /\ get(db, "s1", Limit(-1)) = <<"c2", "c1">>
    /\ get(db, "s1", Limit(0)) = <<"c2", "c1">>
    /\ db[_recent_key("s2")].kind = "none"
    /\ get(db, "s2", Limit(0)) = <<>>

\* C12: a ResumeStore with a non-positive max_size is rejected when it is
\* constructed, so no store with max_size <= 0 ever executes an add.
C12_NonPositiveMaxSizeRejected ==
    max_size <= 0 => /\ \A s \in Sessions : log[s] = <<>>
                     /\ db = EmptyDb

\* the candidate ids a recent-resume block renders, in order
RenderedIds(lines) ==
    LET id_lines == SelectSeq(lines, LAMBDA l : l.kind = "candidate_id")
    IN [i \in 1..Len(id_lines) |-> id_lines[i].text.tag]

EntryIds(entries) == [i \in 1..Len(entries) |-> entries[i].candidate_id]

\* C13 as stated: without a limit the service returns the min(10, length)
\* most recent entries, and build_system_prompt without recent_limit on a
\* default ContextManager renders those same entries.
C13_PromptRendersServiceDefault ==
    \A s \in SeqSessions :
        LET ids == db[_recent_key(s)].items
            entries == get_recent_resume_summaries_default(db, s)
        IN /\ EntryIds(entries) = Take(ids, 10)
           /\ \A i \in RuntimeInfos, b \in BasePrompts, f \in LoadedPrompts :
                 RenderedIds(RecentLines(build_system_prompt(db, TRUE, s, i, NoLimit, b, f)))
                     = EntryIds(entries)

\* C13 amended: without a limit the service returns the min(10, length)
\* most recent entries, each id joined with its summary record; on a
\* default ContextManager build_system_prompt without recent_limit renders
\* the min(5, length) most recent of them.
C13_ServiceTenPromptFive ==
    \A s \in SeqSessions :
        LET ids == db[_recent_key(s)].items
            entries == get_recent_resume_summaries_default(db, s)
        IN /\ EntryIds(entries) = Take(ids, 10)
           /\ \A k \in 1..Len(entries) : entries[k] = summary_entry(db, ids[k])
           /\ \A i \in RuntimeInfos, b \in BasePrompts, f \in LoadedPrompts :
                 RenderedIds(RecentLines(build_system_prompt(db, TRUE, s, i, NoLimit, b, f)))
                     = Take(EntryIds(entries), 5)

\* eleven resumes were viewed: the service returns ten entries and the
\* prompt built without recent_limit shows five
C13_Witness ==
    /\ Len(db[_recent_key("s1")].items) = 11
    /\ Len(get_recent_resume_summaries_default(db, "s1")) = 10
    /\ prompt.status = "ok"
    /\ RenderedIds(RecentLines(prompt)) = <<"c11", "c10", "c9", "c8", "c7">>

BlockKinds(pr) == [k \in 1..Len(pr.blocks) |-> pr.blocks[k].kind]

\* C14: for a session without recent entries the recent-resume block is
\* the empty string and build_system_prompt leaves it out: the prompt is the
\* one built from the base prompt and the runtime block alone.
C14_EmptyBlockOmitted ==
    \A s \in Sessions, lim \in PromptLimits :
        db[_recent_key(s)].kind = "none" =>
            /\ _build_recent_resume_block(db, s, lim) = << >>
            /\ JoinedChars(_build_recent_resume_block(db, s, lim)) = 0
            /\ \A i \in RuntimeInfos, b \in BasePrompts, f \in LoadedPrompts :
                  LET pr == build_system_prompt(db, TRUE, s, i, lim, b, f)
                  IN /\ pr.status = "ok"
                     /\ BlockKinds(pr) = <<"base">> \o
                           (IF _build_runtime_info_block(i) = << >>
                            THEN << >> ELSE <<"runtime">>)
                     /\ \A k \in 1..Len(pr.blocks) :
                           pr.blocks[k].kind = "runtime"
                               => pr.blocks[k].lines = _build_runtime_info_block(i)

\* a prompt was built for a session that viewed nothing: base and runtime only
C14_Witness ==
    /\ db[_recent_key("s1")].kind = "none"
    /\ prompt.status = "ok"
    /\ BlockKinds(prompt) = <<"base", "runtime">>

\* C15: when the resume service answers HTTP 200 to an update, execute
\* returns a success ToolResult whose result is a dict with a top-level
\* `result` field equal to "updated" or "created".
C15_UpdateResultHasResultField ==
    (/\ tool.called
     /\ tool.request # NoRequest
     /\ tool.answer.kind = "response"
     /\ tool.answer.status_code = 200)
        => /\ tool.out.status = "success"
           /\ tool.out.result.kind = "dict"
           /\ DictGetOrNone(tool.out.result, "result") \in {"updated", "created"}

ListKeys == {_recent_key(s) : s \in Sessions}

\* C16: the first step of add_with_summary writes the summary record and
\* leaves every recent list as it was; a call stops only between that step
\* and the list update, and stopping changes nothing; the step that puts
\* the id on the list is taken only by a call whose summary write is done.
C16_StopBetweenStepsLeavesSummaryOnly ==
    [][\A p \in Callers :
          /\ (call[p].pc = "idle" /\ call'[p].pc = "add_with_summary")
                => /\ \A k \in ListKeys : db'[k] = db[k]
                   /\ get_summary(db', call'[p].candidate_id)
                         = [found |-> TRUE, name |-> OrEmpty(call'[p].name),
                            summary |-> OrEmpty(call'[p].summary)]
                   /\ Done(call'[p]) = {"set_summary"}
          /\ (call[p].pc # "failed" /\ call'[p].pc = "failed")
                => /\ call[p].pc = "add_with_summary"
                   /\ Done(call[p]) = {"set_summary"}
                   /\ db' = db
          /\ (call[p].pc = "add_with_summary" /\ call'[p].pc = "idle")
                => /\ "set_summary" \in Done(call[p])
                   /\ db' = add(db, call[p].session_id, call[p].candidate_id)
      ]_vars

\* a call stopped between its steps: its summary is stored, its id is not
\* on the list of its session
C16_Witness ==
    \E p \in Callers :
        /\ call[p].pc = "failed"
        /\ get_summary(db, call[p].candidate_id)
              = [found |-> TRUE, name |-> call[p].name, summary |-> call[p].summary]
        /\ ~Contains(get(db, call[p].session_id, NoLimit), call[p].candidate_id)

\* the characters the first j entries take of the block budget
RECURSIVE UsedChars(_, _)
UsedChars(items, j) ==
    IF j = 0 THEN 0 ELSE UsedChars(items, j - 1) + block_size(item_lines(items[j]))

\* C17: a non-empty block is the header, then the first k entries of the
\* input each as its three complete lines, then at most one truncation
\* marker, which is the last line; the marker is there exactly when an
\* entry was dropped, and entry k + 1 is the first that does not fit.
C17_BlockIsPrefixPlusOneMarker ==
    \A s \in SeqSessions, lim \in PromptLimits :
        LET items == cm_get_recent_resume_summaries(db, s, lim)
            lines == _build_recent_resume_block(db, s, lim)
            k == Len(RenderedIds(lines))
            markers == {j \in 1..Len(lines) : lines[j].kind = "truncated"}
        IN items # << >> =>
             /\ lines[1] = HeaderLine
             /\ k <= Len(items)
             /\ Len(lines) = 1 + 3 * k + Cardinality(markers)
             /\ \A j \in 1..k : SubSeq(lines, 3 * j - 1, 3 * j + 1) = item_lines(items[j])
             /\ \A j \in 1..k : UsedChars(items, j) <= MAX_RECENT_RESUME_BLOCK_CHARS
             /\ markers = (IF k < Len(items) THEN {Len(lines)} ELSE {})
             /\ k < Len(items) =>
                   /\ lines[Len(lines)] = BlockMarkerLine
                   /\ UsedChars(items, k + 1) > MAX_RECENT_RESUME_BLOCK_CHARS

\* a prompt whose block shows one of two viewed resumes and ends in the marker
C17_Witness ==
    /\ prompt.status = "ok"
    /\ Len(db[_recent_key("s1")].items) = 2
    /\ Len(RenderedIds(RecentLines(prompt))) = 1
    /\ Len(RecentLines(prompt)) = 5
    /\ RecentLines(prompt)[5] = BlockMarkerLine

\* summaries around the per-item cap, with and without surrounding blanks
SummaryInputs ==
    {Text("cv", lead, core, trail) :
        lead \in {0, 1}, core \in {0, 1, 1999, 2000, 2001, 3000}, trail \in {0, 2}}

\* the summary line of an entry is as C18 says
SummaryLineAsClaimed(item) ==
    LET line == item_lines(item)[3]
        trimmed == Strip(OrEmpty(item.summary))
    IN /\ line.kind = "summary"
       /\ IF StrLen(trimmed) > 2000
          THEN /\ line.cut
               /\ line.text = Str(trimmed.tag, 2000)
               /\ line.total = StrLen(item.summary)
               /\ line.len = SummaryPrefixChars + 2000 + SummaryMarkerHeadChars
                                + Digits(StrLen(item.summary)) + SummaryMarkerTailChars
          ELSE /\ ~line.cut
               /\ line.text = trimmed
               /\ line.len = SummaryPrefixChars + StrLen(trimmed)

\* C18: a summary that is longer than 2000 characters after its
\* surrounding whitespace is trimmed is rendered as its first 2000
\* characters and a marker stating the length of the summary as stored
\* (3000 for a 3000-character summary); a summary of at most 2000
\* characters is rendered as it is, trimmed, without a marker.
C18_LongSummaryCutWithLength ==
    /\ \A s \in SeqSessions :
          LET items == cm_get_recent_resume_summaries(db, s, NoLimit)
          IN \A j \in 1..Len(items) : SummaryLineAsClaimed(items[j])
    /\ \A t \in SummaryInputs :
          SummaryLineAsClaimed([candidate_id |-> "c1", name |-> Str("Alice", 5),
                                summary |-> t])
    /\ item_lines([candidate_id |-> "c1", name |-> Str("Alice", 5),
                    summary |-> Str("cv", 3000)])[3].total = 3000

\* a prompt shows a stored 3000-character summary cut to 2000 characters
C18_Witness ==
    /\ prompt.status = "ok"
    /\ \E j \in 1..Len(RecentLines(prompt)) :
          LET line == RecentLines(prompt)[j]
          IN /\ line.kind = "summary"
             /\ line.cut
             /\ line.text = Str("long", 2000)
             /\ line.total >= 3000
    /\ \E j \in 1..Len(RecentLines(prompt)) :
          /\ RecentLines(prompt)[j].kind = "summary"
          /\ RecentLines(prompt)[j].text = Str("5y PM", 5)
          /\ ~RecentLines(prompt)[j].cut

\* what a write of the pair w stores
StoredPair(w) ==
    [name |-> IF w.name = None THEN EmptyStr ELSE w.name,
     summary |-> IF w.summary = None THEN EmptyStr ELSE w.summary]

\* C19: under any interleaving of set_summary and add_with_summary calls a
\* stored summary record has exactly the fields name and summary and is the
\* pair of one single write; each write replaces the record by its own
\* pair, a missing value being stored as the empty string.
C19_RecordIsOneWholeWrite ==
    /\ \A c \in Cands :
          db[_summary_key(c)].kind # "none" =>
             /\ db[_summary_key(c)].kind = "hash"
             /\ DOMAIN HGETALL(db, _summary_key(c)) = {"name", "summary"}
             /\ \E w \in SummaryViews : HGETALL(db, _summary_key(c)) = StoredPair(w)
    /\ \A c \in ConcCands, w \in Views :
          /\ HGETALL(set_summary(db, c, w.name, w.summary), _summary_key(c)) = StoredPair(w)
          /\ \A s \in SeqSessions :
                HGETALL(add_with_summary(db, s, c, w.name, w.summary), _summary_key(c))
                    = StoredPair(w)

\* two calls wrote different pairs for one candidate and are both between
\* their statements: the record is the whole pair of one of them
C19_Witness ==
    /\ \A p \in Callers : InFlight(p) /\ call[p].candidate_id = "c1"
    /\ call["p1"].name # call["p2"].name
    /\ \E p \in Callers :
          HGETALL(db, _summary_key("c1")) = [name |-> call[p].name, summary |-> call[p].summary]

EmptyRecord == [found |-> TRUE, name |-> EmptyStr, summary |-> EmptyStr]

\* C20: after set_summary(id, "", "") or set_summary(id, None, None),
\* get_summary(id) returns the record {name: "", summary: ""}; it returns
\* the absent value exactly when no record is stored for id: never
\* written, deleted or expired.
C20_EmptySummaryIsFound ==
    \A c \in ConcCands :
        /\ get_summary(set_summary(db, c, EmptyStr, EmptyStr), c) = EmptyRecord
        /\ get_summary(set_summary(db, c, None, None), c) = EmptyRecord
        /\ get_summary(db, c).found <=> db[_summary_key(c)].kind # "none"
        /\ get_summary(db, c) = NotFound <=> db[_summary_key(c)].kind = "none"
        /\ get_summary(delete_summary(db, c), c) = NotFound

\* an empty summary is stored for one id and read back as a record, while
\* another id has no record and reads as absent
C20_Witness ==
    /\ db[_summary_key("c1")].kind = "hash"
    /\ get_summary(db, "c1") = EmptyRecord
    /\ db[_summary_key("c2")].kind = "none"
    /\ get_summary(db, "c2") = NotFound

\* C21: for every state of a session and every candidate id X, add(session, X)
\* run twice in a row leaves the same recent list (and the same store) as
\* add(session, X) run once.
C21_AddIdempotent ==
    \A s \in SeqSessions, x \in Cands :
        LET once == add(db, s, x)
            twice == add(add(db, s, x), s, x)
        IN /\ \A lim \in Limits : get(twice, s, lim) = get(once, s, lim)
           /\ twice[_recent_key(s)].items = once[_recent_key(s)].items
           /\ twice = once

\* c2 was added twice in a row after c1: the list is what one add leaves
C21_Witness ==
    /\ max_size >= 2
    /\ log["s1"] = <<"c1", "c2", "c2">>
    /\ get(db, "s1", NoLimit) = <<"c2", "c1">>

\* C22: remove(session, X) leaves the list without X, the other ids in
\* their order, and returns 1 when X was listed and 0 otherwise; an id that
\* is not on the list comes back only by an add of that id.
C22_RemoveDeletesAndCounts ==
    [][\A s \in SeqSessions, x \in Cands :
          LET before == db[_recent_key(s)].items
          IN /\ get(remove(db, s, x), s, NoLimit) = Without(before, x)
             /\ ~Contains(get(remove(db, s, x), s, NoLimit), x)
             /\ remove_result(db, s, x) = (IF Contains(before, x) THEN 1 ELSE 0)
             /\ (~Contains(before, x) /\ Contains(db'[_recent_key(s)].items, x))
                   => db' = add(db, s, x)
      ]_vars

\* c1 then c2 were added to a list of two and c2 was removed: c1 is left
C22_Witness ==
    /\ max_size = 2
    /\ log["s1"] = <<"c1", "c2">>
    /\ get(db, "s1", NoLimit) = <<"c1">>
    /\ remove_result(db, "s1", "c2") = 0

\* C23: add touches the list key only and set_summary the summary key of
\* its candidate only, so each call renews one expiry and leaves the others
\* running; an id that is listed while its summary record is gone is
\* returned by get_recent_summaries with empty name and summary.
C23_ExpiriesIndependent ==
    \A s \in Sessions, c \in ConcCands :
        /\ \A k \in Keys \ {_recent_key(s)} : add(db, s, c)[k] = db[k]
        /\ \A w \in LatestViews :
              /\ \A k \in Keys \ {_summary_key(c)} :
                    set_summary(db, c, w.name, w.summary)[k] = db[k]
              /\ \A k \in Keys \ {_recent_key(s), _summary_key(c)} :
                    update_latest_view(db, s, c, w.name, w.summary)[k] = db[k]
        /\ ttl_seconds # 0 =>
              /\ add(db, s, c)[_recent_key(s)].ttl = ttl_seconds
              /\ \A w \in LatestViews :
                    set_summary(db, c, w.name, w.summary)[_summary_key(c)].ttl = ttl_seconds
        /\ \A j \in 1..Len(get_recent_summaries(db, s, NoLimit)) :
              LET entry == get_recent_summaries(db, s, NoLimit)[j]
              IN db[_summary_key(entry.candidate_id)].kind = "none"
                    => /\ entry.candidate_id = get(db, s, NoLimit)[j]
                       /\ entry.name = EmptyStr
                       /\ entry.summary = EmptyStr

\* only update_latest_view ran: c1 is still listed behind c2, its summary
\* has expired and it reads back with empty name and summary
C23_Witness ==
    /\ get(db, "s1", NoLimit) = <<"c2", "c1">>
    /\ db[_summary_key("c1")].kind = "none"
    /\ db[_summary_key("c2")].kind = "hash"
    /\ get_recent_summaries(db, "s1", NoLimit)[2]
          = [candidate_id |-> "c1", name |-> EmptyStr, summary |-> EmptyStr]

\* C24: update_latest_view(A, c, name, summary) leaves the ids and the order
\* of every other session B as they were and makes the entry of c that
\* get_recent_resume_summaries(B) returns carry the new name and summary;
\* two writes by A that differ give B two different views when B lists c.
C24_SummarySharedAcrossSessions ==
    \A a \in Sessions : \A b \in Sessions \ {a}, c \in ConcCands, w \in LatestViews :
        LET after == update_latest_view(db, a, c, w.name, w.summary)
            seen == get_recent_resume_summaries(db, b, NoLimit)
            seen_after == get_recent_resume_summaries(after, b, NoLimit)
        IN /\ get(after, b, NoLimit) = get(db, b, NoLimit)
           /\ EntryIds(seen_after) = EntryIds(seen)
           /\ \A j \in 1..Len(seen) :
                 seen_after[j] = IF seen[j].candidate_id = c
                                 THEN [candidate_id |-> c, name |-> w.name,
                                       summary |-> w.summary]
                                 ELSE seen[j]
           /\ Contains(get(db, b, NoLimit), c) =>
                 \A w2 \in LatestViews \ {w} :
                     get_recent_resume_summaries(
                         update_latest_view(db, a, c, w2.name, w2.summary), b, NoLimit)
                       # seen_after

\* s2 viewed c1, then a tick later s1 viewed c1 as Bob: s2 now reads Bob
C24_Witness ==
    /\ ttl_seconds = MaxTtl
    /\ db[_recent_key("s2")].ttl = MaxTtl - 1
    /\ db[_recent_key("s1")].ttl = MaxTtl
    /\ db[_summary_key("c1")].ttl = MaxTtl
    /\ get(db, "s2", NoLimit) = <<"c1">>
    /\ get(db, "s1", NoLimit) = <<"c1">>
    /\ get_recent_resume_summaries(db, "s2", NoLimit)
          = << [candidate_id |-> "c1", name |-> Str("Bob", 3),
                summary |-> Str("backend eng", 11)] >>

\* C25: a limit of zero or below given to the service, and recent_limit = 0
\* given to build_system_prompt, reach ResumeStore.get as they are and are
\* widened there to max_size: the whole list, up to max_size entries, is
\* returned and rendered, not ten entries, not recent_resume_limit entries
\* and not none.
C25_NonPositiveLimitWidenedToMaxSize ==
    \A s \in SeqSessions :
        LET ids == db[_recent_key(s)].items
        IN /\ \A n \in (-1)..0 :
                 /\ EntryIds(get_recent_resume_summaries(db, s, Limit(n)))
                       = Take(ids, max_size)
                 /\ get_recent_resume_summaries(db, s, Limit(n))
                       = get_recent_summaries(db, s, Limit(max_size))
           /\ \A i \in RuntimeInfos, b \in BasePrompts, f \in LoadedPrompts :
                 RenderedIds(RecentLines(
                     build_system_prompt(db, TRUE, s, i, Limit(0), b, f)))
                   = Take(ids, max_size)

\* eleven resumes were viewed and a prompt built with recent_limit = 0
\* shows all eleven
C25_Witness ==
    /\ Len(db[_recent_key("s1")].items) = 11
    /\ Len(get_recent_resume_summaries(db, "s1", Limit(0))) = 11
    /\ prompt.status = "ok"
    /\ Len(RenderedIds(RecentLines(prompt))) = 11

====
